---------------------------- MODULE Spec2Model ----------------------------
(***************************************************************************)
(* A model of amp-extract (src/src/main.rs): the deobfuscation pass        *)
(* `deobfs`, the MPEG frame scanner `extract_mp3`, the two table lookups   *)
(* and the per-file driver `process_file`.                                 *)
(*                                                                         *)
(* Bytes are integers 0..255 and a buffer is a sequence of bytes; the      *)
(* code's 0-based index i is position i + 1 of the sequence.  TLC's        *)
(* integers are 32-bit signed, so the u32 `header_num` is held as its two  *)
(* 16-bit halves [hi, lo] (header_num = hi * 2^16 + lo) and the masks of   *)
(* the source are split the same way.  The Vec<u8> mp3_stream is held as   *)
(* the list of the pieces appended to it, each a copy of the header bytes  *)
(* followed by a slice [from, to) of the scanned buffer; RopeBytes gives   *)
(* its bytes.                                                              *)
(***************************************************************************)
EXTENDS Integers, Sequences, FiniteSets, TLC

VARIABLES
    \* ---- the deobfs harness
    buffer,          \* the &[u8] argument of deobfs
    phase,           \* the `offset` argument of deobfs (process_file passes 0..3)
    once,            \* the result of deobfs(buffer, phase): [ok, out]
    twice,           \* the result of deobfs(once.out, phase): [ok, out]
    dpc,             \* position of the deobfs harness
    \* ---- one call of extract_mp3
    input,           \* the fixture the argument s of extract_mp3 is built from
    pc,              \* "idle" | "start" | "loop" | "done" | "panic"
    exit,            \* outcome of the last step: the check that rejected
                     \* the header, "ok", or the statement that returned
    pos,             \* bytes consumed: total_stream_len - stream_iter.len()
    header,          \* the header shift register
    mp3_stream,      \* the accumulated run, as a list of pieces
    is_mp3,          \* whether the previous iteration appended a frame
    extracted_mp3s,  \* the return value: sequence of <<payload, offset>>
    header_num,      \* the last decoded header, [hi, lo]
    frame_length,    \* the last computed frame length
    \* ---- one call of process_file
    file,            \* the fixture the file at `path` is built from
    fpc,             \* position in process_file
    passes,          \* what the iterator (0..4).map(..) of lines 48-49
                     \* yields for each i: extract_mp3(deobfs(&buffer, i))
    fphase,          \* the next i of (0..4) the iterator of line 48 maps
    extracted,       \* the runs collected so far, then sorted (lines 48-52)
    written,         \* the files written (lines 55-64), in order
    \* ---- one call of get_bit_rate or get_sample_rate
    lidx,            \* the argument i
    lres,            \* the Option<u32> returned
    lpc              \* "idle" | "start" | "bit_rate" | "sample_rate"

lvars == <<lidx, lres, lpc>>
fvars == <<file, fpc, passes, fphase, extracted, written>>
dvars == <<buffer, phase, once, twice, dpc>>
svars == <<input, pc, exit, pos, header, mp3_stream, is_mp3,
           extracted_mp3s, header_num, frame_length>>
vars == <<dvars, svars, fvars, lvars>>

---------------------------------------------------------------------------
(* Constants and table lookups, main.rs lines 7-26 *)

THRESHOLD == 50 * 1024

MP3_BIT_RATES ==
    <<32000, 40000, 48000, 56000, 64000, 80000, 96000, 112000, 128000,
      160000, 192000, 224000, 256000, 320000>>

MP3_SAMPLE_RATES == <<44100, 48000, 3200>>

\* Option<u32>: None is the empty sequence, Some(v) is <<v>>.
None == <<>>
Some(v) == <<v>>

\* slice.get(i).copied() on a table, with a 0-based index
TableGet(table, i) == IF i < Len(table) THEN Some(table[i + 1]) ELSE None

\* get_bit_rate without the subtraction of `min`
get_bit_rate_nomin(i) == TableGet(MP3_BIT_RATES, i)

get_bit_rate(i) ==
    LET min == 1
    IN  IF i < min THEN None                   \* checked_sub(min)?
        ELSE TableGet(MP3_BIT_RATES, i - min)

get_sample_rate(i) ==
    LET min == 0
    IN  IF i < min THEN None
        ELSE TableGet(MP3_SAMPLE_RATES, i - min)

---------------------------------------------------------------------------
(* deobfs, main.rs lines 67-75 *)

\* Vec::swap replaced by a one-way copy
Swap_copy(out, i, j) == [out EXCEPT ![i + 1] = out[j + 1]]

\* Vec::swap(i, j) with 0-based indices; the caller checks the bounds
Swap(out, i, j) == [out EXCEPT ![i + 1] = out[j + 1], ![j + 1] = out[i + 1]]

\* The loop body for the indices i in base..base + Len(out) - 2 on the
\* slice `out` of the buffer that starts at index base, in increasing order
\* of i: the swaps of the left half, then those of the right half on what
\* the left half left at the index they share.
RECURSIVE SwapPass(_, _, _)
SwapPass(out, offset, base) ==
    LET n == Len(out)
    IN  IF n <= 1 THEN out
        ELSE IF n = 2
        THEN IF base % 4 = offset THEN Swap(out, 0, 1) ELSE out
        ELSE LET m == n \div 2
                 left == SwapPass(SubSeq(out, 1, m + 1), offset, base)
                 right == SwapPass(<<left[m + 1]>> \o SubSeq(out, m + 2, n),
                                   offset, base + m)
             IN  SubSeq(left, 1, m) \o right

\* deobfs that swaps only at i = offset, not at offset + 4, offset + 8, ...
deobfs_first(buf, offset) ==
    IF Len(buf) = 0 THEN [ok |-> FALSE, out |-> <<>>]
    ELSE [ok |-> TRUE,
          out |-> IF offset + 1 < Len(buf) THEN Swap(buf, offset, offset + 1)
                  ELSE buf]

\* deobfs with a copy that loses the last byte
deobfs_short(buf, offset) ==
    IF Len(buf) = 0 THEN [ok |-> FALSE, out |-> <<>>]
    ELSE [ok |-> TRUE,
          out |-> SwapPass(SubSeq(buf, 1, Len(buf) - 1), offset, 0)]

\* out.len() - 1 on an empty Vec underflows usize: a debug build panics on
\* the subtraction, a release build wraps to usize::MAX and panics in
\* out.swap(offset, offset + 1), index out of bounds.  Either build panics.
deobfs(buf, offset) ==
    IF Len(buf) = 0
    THEN [ok |-> FALSE, out |-> <<>>]
    ELSE [ok |-> TRUE, out |-> SwapPass(buf, offset, 0)]

---------------------------------------------------------------------------
(* 32-bit words as two 16-bit halves *)

RECURSIVE BitAnd(_, _)
BitAnd(a, b) ==
    IF a = 0 \/ b = 0 THEN 0
    ELSE (a % 2) * (b % 2) + 2 * BitAnd(a \div 2, b \div 2)

Word(hi, lo) == [hi |-> hi, lo |-> lo]

\* x & m on u32
And32(x, m) == Word(BitAnd(x.hi, m.hi), BitAnd(x.lo, m.lo))

\* x >> n on u32, as an integer (every use leaves a value below 2^16)
Shr32(x, n) ==
    IF n >= 16 THEN x.hi \div (2 ^ (n - 16))
    ELSE x.hi * (2 ^ (16 - n)) + x.lo \div (2 ^ n)

\* a * b on u32 overflows iff floor(a * b / 2^16) >= 2^16; b is below 2^15
MulOverflows32(a, b) ==
    (a \div 65536) * b + ((a % 65536) * b) \div 65536 >= 65536

---------------------------------------------------------------------------
(* extract_mp3, main.rs lines 77-195 *)

\* A piece of mp3_stream: lines 181-182 append header.clone() and then the
\* slice [from, to) of the buffer the iterator yields
Piece(head, from, to) == [head |-> head, from |-> from, to |-> to]

RECURSIVE RopeLen(_)
RopeLen(rope) ==
    IF rope = <<>> THEN 0
    ELSE Len(Head(rope).head) + Head(rope).to - Head(rope).from
         + RopeLen(Tail(rope))

RECURSIVE RopeBytes(_, _)
RopeBytes(buf, rope) ==
    IF rope = <<>> THEN <<>>
    ELSE Head(rope).head \o SubSeq(buf, Head(rope).from + 1, Head(rope).to)
         \o RopeBytes(buf, Tail(rope))

\* lines 115-118: the big-endian u32 of header[0..3]
HeaderNum(h) == Word(h[1] * 256 + h[2], h[3] * 256 + h[4])

\* the fields of a header, lines 126, 132, 138, 148, 158, 161
MpegVersion(hn) == Shr32(And32(hn, Word(24, 0)), 19)          \* 0x00180000
MpegLayer(hn) == Shr32(And32(hn, Word(6, 0)), 17)             \* 0x00060000
BitRateIdx(hn) == Shr32(And32(hn, Word(0, 61440)), 12)        \* 0x0000F000
SampleRateIdx(hn) == Shr32(And32(hn, Word(0, 3072)), 10)      \* 0x00000C00
HasPadding(hn) == Shr32(And32(hn, Word(0, 512)), 9) = 1       \* 0x00000200
Emphasis(hn) == And32(hn, Word(0, 3)).lo                      \* 0x00000003

\* Validate with the version check reduced to `mpeg_version == 0b01`
Validate_version(hn) ==
    IF And32(hn, Word(65504, 0)) # Word(65504, 0) THEN "sync"
    ELSE IF MpegVersion(hn) = 1 THEN "version"
    ELSE IF MpegLayer(hn) = 0 \/ MpegLayer(hn) # 1 THEN "layer"
    ELSE IF BitRateIdx(hn) = 0 \/ BitRateIdx(hn) = 15 THEN "bit_rate"
    ELSE IF get_bit_rate(BitRateIdx(hn)) = None THEN "bit_rate"
    ELSE IF SampleRateIdx(hn) = 3 THEN "sample_rate"
    ELSE IF get_sample_rate(SampleRateIdx(hn)) = None THEN "sample_rate"
    ELSE IF Emphasis(hn) = 2 THEN "emphasis"
    ELSE "ok"

\* lines 120-164: the checks in the order of the source; the name of the
\* first `continue` taken, or "ok"
Validate(hn) ==
    IF And32(hn, Word(65504, 0)) # Word(65504, 0) THEN "sync"  \* 0xFFE00000
    ELSE IF MpegVersion(hn) = 1 \/ MpegVersion(hn) # 3 THEN "version"
    ELSE IF MpegLayer(hn) = 0 \/ MpegLayer(hn) # 1 THEN "layer"
    ELSE IF BitRateIdx(hn) = 0 \/ BitRateIdx(hn) = 15 THEN "bit_rate"
    ELSE IF get_bit_rate(BitRateIdx(hn)) = None THEN "bit_rate"
    ELSE IF SampleRateIdx(hn) = 3 THEN "sample_rate"
    ELSE IF get_sample_rate(SampleRateIdx(hn)) = None THEN "sample_rate"
    ELSE IF Emphasis(hn) = 2 THEN "emphasis"
    ELSE "ok"

\* FrameLength without the padding byte
FrameLength_nopad(bit_rate, sample_rate, has_padding) ==
    (144 * bit_rate) \div sample_rate

\* lines 170-174
FrameLength(bit_rate, sample_rate, has_padding) ==
    (144 * bit_rate) \div sample_rate + (IF has_padding THEN 1 ELSE 0)

\* line 100
Offset(total, remaining, len) == total - remaining - len

\* lines 187-191: how many bytes the header register is refilled with
RefillLen == 3

\* The locals of extract_mp3 as one record.
Locals(pc0, exit0, pos0, header0, stream0, is0, out0, hn0, fl0) ==
    [pc |-> pc0, exit |-> exit0, pos |-> pos0, header |-> header0,
     mp3_stream |-> stream0, is_mp3 |-> is0, extracted_mp3s |-> out0,
     header_num |-> hn0, frame_length |-> fl0]

\* the prologue without the placeholder byte in front of the header
Begin_nopad(buf) ==
    LET fresh == Locals("loop", "", 0, <<>>, <<>>, FALSE, <<>>, Word(0, 0), 0)
    IN  IF Len(buf) < 3
        THEN [fresh EXCEPT !.pc = "done", !.exit = "short"]
        ELSE [fresh EXCEPT !.header = SubSeq(buf, 1, 3), !.pos = 3]

\* lines 80-95: the prologue
Begin(buf) ==
    LET fresh == Locals("loop", "", 0, <<0>>, <<>>, FALSE, <<>>, Word(0, 0), 0)
    IN  IF Len(buf) < 3
        THEN [fresh EXCEPT !.pc = "done", !.exit = "short"]
        ELSE [fresh EXCEPT !.header = <<0>> \o SubSeq(buf, 1, 3), !.pos = 3]

\* Flush with the test `mp3_stream.len() >= THRESHOLD`
Flush_ge(buf, st) ==
    IF st.is_mp3 THEN st
    ELSE IF RopeLen(st.mp3_stream) >= THRESHOLD
         THEN [st EXCEPT
                  !.extracted_mp3s =
                      Append(@, <<st.mp3_stream,
                                  Offset(Len(buf), Len(buf) - st.pos,
                                         RopeLen(st.mp3_stream))>>),
                  !.mp3_stream = <<>>]
         ELSE [st EXCEPT !.mp3_stream = <<>>]

\* Flush that keeps a run it does not emit
Flush_keep(buf, st) ==
    IF st.is_mp3 THEN st
    ELSE IF RopeLen(st.mp3_stream) > THRESHOLD
         THEN [st EXCEPT
                  !.extracted_mp3s =
                      Append(@, <<st.mp3_stream,
                                  Offset(Len(buf), Len(buf) - st.pos,
                                         RopeLen(st.mp3_stream))>>),
                  !.mp3_stream = <<>>]
         ELSE st

\* Flush that does not clear the run it emits
Flush_dup(buf, st) ==
    IF st.is_mp3 THEN st
    ELSE IF RopeLen(st.mp3_stream) > THRESHOLD
         THEN [st EXCEPT
                  !.extracted_mp3s =
                      Append(@, <<st.mp3_stream,
                                  Offset(Len(buf), Len(buf) - st.pos,
                                         RopeLen(st.mp3_stream))>>)]
         ELSE [st EXCEPT !.mp3_stream = <<>>]

\* lines 98-104: the top of the loop
Flush(buf, st) ==
    IF st.is_mp3 THEN st
    ELSE IF RopeLen(st.mp3_stream) > THRESHOLD
         THEN LET offset == Offset(Len(buf), Len(buf) - st.pos,
                                   RopeLen(st.mp3_stream))
              IN  IF offset < 0
                  THEN [st EXCEPT !.pc = "panic", !.exit = "offset"]
                  ELSE [st EXCEPT
                           !.extracted_mp3s = Append(@, <<st.mp3_stream, offset>>),
                           !.mp3_stream = <<>>]
         ELSE [st EXCEPT !.mp3_stream = <<>>]

\* TakeFrame with a refill that drops the first byte after the frame
TakeFrame_skip(buf, st, fl) ==
    IF Len(buf) - st.pos < fl - 4
    THEN [st EXCEPT !.pc = "done", !.exit = "truncated"]
    ELSE LET end == st.pos + fl - 4
             run == Append(st.mp3_stream, Piece(st.header, st.pos, end))
             got == [st EXCEPT !.mp3_stream = run, !.header = <<0>>, !.pos = end]
         IN  IF Len(buf) - end < 4
             THEN [got EXCEPT !.pc = "done", !.exit = "refill"]
             ELSE [got EXCEPT
                      !.header = <<0>> \o SubSeq(buf, end + 2, end + 4),
                      !.pos = end + 4]

\* lines 176-191: a validated header; st.pos is past the header
TakeFrame(buf, st, fl) ==
    IF fl < 4
    THEN [st EXCEPT !.pc = "panic", !.exit = "frame_length"]
    ELSE IF Len(buf) - st.pos < fl - 4
    THEN [st EXCEPT !.pc = "done", !.exit = "truncated"]
    ELSE LET end == st.pos + fl - 4
             run == Append(st.mp3_stream, Piece(st.header, st.pos, end))
             got == [st EXCEPT !.mp3_stream = run, !.header = <<0>>, !.pos = end]
         IN  IF Len(buf) - end < RefillLen
             THEN [got EXCEPT !.pc = "done", !.exit = "refill"]
             ELSE [got EXCEPT
                      !.header = <<0>> \o SubSeq(buf, end + 1, end + RefillLen),
                      !.pos = end + RefillLen]

\* lines 106-174: shift one byte into the header, decode and validate it
Scan(buf, st0) ==
    LET st == [st0 EXCEPT !.is_mp3 = FALSE]
    IN  IF Len(st.header) = 0
        THEN [st EXCEPT !.pc = "panic", !.exit = "remove"]
        ELSE IF st.pos >= Len(buf)
        THEN [st EXCEPT !.header = Tail(@), !.pc = "done", !.exit = "no_byte"]
        ELSE LET h == Append(Tail(st.header), buf[st.pos + 1])
                 read == [st EXCEPT !.header = h, !.pos = @ + 1]
             IN  IF Len(h) < 4
                 THEN [read EXCEPT !.pc = "panic", !.exit = "index"]
                 ELSE LET hn == HeaderNum(h)
                          dec == [read EXCEPT !.header_num = hn, !.exit = Validate(hn)]
                      IN  IF dec.exit # "ok" THEN dec
                          ELSE LET bit_rate == get_bit_rate(BitRateIdx(hn))[1]
                                   sample_rate == get_sample_rate(SampleRateIdx(hn))[1]
                                   fl == FrameLength(bit_rate, sample_rate, HasPadding(hn))
                                   acc == [dec EXCEPT !.is_mp3 = TRUE, !.frame_length = fl]
                               IN  IF MulOverflows32(bit_rate, 144)
                                   THEN [acc EXCEPT !.pc = "panic", !.exit = "multiply"]
                                   ELSE TakeFrame(buf, acc, fl)

\* an iteration that does not consume the byte of a rejected header
Step_stall(buf, st) ==
    LET n == Scan(buf, Flush(buf, st))
    IN  IF n.pc = "loop" /\ ~n.is_mp3
        THEN [n EXCEPT !.pos = st.pos, !.header = st.header]
        ELSE n

\* one iteration of the loop, lines 97-192
Step(buf, st) ==
    LET top == Flush(buf, st)
    IN  IF top.pc = "panic" THEN top ELSE Scan(buf, top)

\* the loop run for at most n iterations: the first half of them, then
\* the rest from where the first half stopped
RECURSIVE Iterate(_, _, _)
Iterate(buf, st, n) ==
    IF st.pc # "loop" THEN st
    ELSE IF n <= 1 THEN Step(buf, st)
    ELSE LET half == Iterate(buf, st, n \div 2)
         IN  IF half.pc # "loop" THEN half
             ELSE Iterate(buf, half, n - n \div 2)

\* extract_mp3 as one call: every iteration but the last consumes a byte,
\* so Len(buf) + 1 iterations end the loop
extract_mp3(buf) == Iterate(buf, Begin(buf), Len(buf) + 1)

---------------------------------------------------------------------------
(* Input buffers.  A segment is `head` followed by `fill` bytes up to `len`
   bytes in all: a frame, or with an empty head a gap of noise.  A fixture
   is `lead` zero bytes, the segments of a body (the last one `cut` bytes
   short), the bytes `probe` and `trail` zero bytes. *)

MaxLead == 1        \* leading noise: 0..MaxLead bytes, and 100 bytes
MaxTrail == 4       \* trailing noise: 0..MaxTrail bytes
MaxCut == 1         \* bytes cut off the last frame: 0..MaxCut

Seg(head, len, fill) == [head |-> head, len |-> len, fill |-> fill]

SegBytes(seg) ==
    IF seg.len <= Len(seg.head) THEN SubSeq(seg.head, 1, seg.len)
    ELSE seg.head \o [i \in 1..(seg.len - Len(seg.head)) |-> seg.fill]

RECURSIVE Concat(_)
Concat(segs) ==
    IF segs = <<>> THEN <<>> ELSE SegBytes(Head(segs)) \o Concat(Tail(segs))

\* The encoder's view of MPEG-1 Layer III (spec section 6): kbit/s by
\* bit-rate index 1..14, Hz by sample-rate index 0..2.
RefKbps == <<32, 40, 48, 56, 64, 80, 96, 112, 128, 160, 192, 224, 256, 320>>
RefHz == <<44100, 48000, 3200>>
RefFrameLen(bi, si, pad) == (144000 * RefKbps[bi]) \div RefHz[si + 1] + pad

\* A well-formed frame: sync, MPEG-1, Layer III, no CRC, the given indices,
\* and a payload of 0xAA bytes
Frame(bi, si, pad) ==
    Seg(<<255, 251, bi * 16 + si * 4 + pad * 2, 0>>, RefFrameLen(bi, si, pad),
        170)

Repeat(x, n) == [i \in 1..n |-> x]

\* Every (bit rate, padding) at one sample-rate index
Kinds(si) == [k \in 1..28 |-> Frame((k + 1) \div 2, si, (k + 1) % 2)]

Bodies ==
    << <<>>,                                              \* no frame
       <<Frame(9, 0, 0), Frame(9, 0, 1)>>,                \* 417 + 418
       Kinds(0) \o Kinds(1),                              \* 44100 and 48000 Hz
       Repeat(Frame(14, 2, 0), 4),                        \* 4 * 14400
       Repeat(Frame(14, 2, 0), 3)                         \* THRESHOLD + 1
           \o <<Frame(10, 2, 0), Frame(9, 0, 0), Frame(9, 1, 0)>>,
       Repeat(Frame(14, 2, 0), 3)                         \* THRESHOLD
           \o <<Frame(10, 2, 0), Frame(11, 1, 0), Frame(2, 1, 0), Frame(1, 0, 0)>>,
       Kinds(2),                                          \* 3200 Hz
       Repeat(Frame(14, 2, 0), 4)                         \* a run, a short
           \o <<Seg(<<>>, 1, 0), Frame(9, 0, 0), Frame(9, 0, 1),  \* run and
                Seg(<<>>, 2, 0)>>                          \* a run, 1 and 2
           \o Repeat(Frame(14, 2, 0), 4),                 \* bytes apart
       Repeat(Seg(<<255, 251, 232, 232>>, 14400, 255), 4) >>  \* 0xFF payload

CutLast(frames, cut) ==
    IF frames = <<>> THEN frames
    ELSE [frames EXCEPT ![Len(frames)] = Seg(@.head, @.len - cut, @.fill)]

Fixture(lead, body, cut, probe, trail) ==
    [lead |-> lead, body |-> body, cut |-> cut, probe |-> probe, trail |-> trail]

\* The frames of a fixture as they lie in its buffer
FrameBytes(in) == Concat(CutLast(Bodies[in.body], in.cut))

Buffer(in) ==
    Repeat(0, in.lead) \o FrameBytes(in) \o in.probe \o Repeat(0, in.trail)

RunInputs ==
    { Fixture(l, b, c, <<>>, t) :
        l \in (0..MaxLead) \cup {100}, b \in 1..Len(Bodies),
        c \in 0..MaxCut, t \in 0..MaxTrail }

\* One header window with each field at valid and invalid values, and 100
\* zero bytes after it
ProbeHeads ==
    { <<b0, b1, b2, b3>> :
        b0 \in {255, 127},
        b1 \in {251, 250, 219, 243, 235, 253, 249, 255},
        b2 \in {20, 22, 16, 4, 244, 28, 148},
        b3 \in 0..3 }

ProbeInputs == { Fixture(0, 1, 0, h, 100) : h \in ProbeHeads }

Inputs == RunInputs \cup ProbeInputs

NoInput == Fixture(0, 1, 0, <<>>, 0)

BufferOf == [in \in Inputs \cup {NoInput} |-> Buffer(in)]

\* The Vec<u8> argument of extract_mp3
s == BufferOf[input]

---------------------------------------------------------------------------
(* The scan of one buffer, an iteration of the loop at a time *)

Cur == Locals(pc, exit, pos, header, mp3_stream, is_mp3, extracted_mp3s,
              header_num, frame_length)

Becomes(n) ==
    /\ pc' = n.pc
    /\ exit' = n.exit
    /\ pos' = n.pos
    /\ header' = n.header
    /\ mp3_stream' = n.mp3_stream
    /\ is_mp3' = n.is_mp3
    /\ extracted_mp3s' = n.extracted_mp3s
    /\ header_num' = n.header_num
    /\ frame_length' = n.frame_length
    /\ UNCHANGED <<input, dvars, fvars, lvars>>

Idle == Locals("idle", "", 0, <<>>, <<>>, FALSE, <<>>, Word(0, 0), 0)

DeobfsIdle ==
    /\ buffer = <<>>
    /\ phase = 0
    /\ once = [ok |-> TRUE, out |-> <<>>]
    /\ twice = [ok |-> TRUE, out |-> <<>>]
    /\ dpc = "idle"

\* A file: whether `path` is a file, whether it can be read, and its
\* content: the buffers of the parts, each obfuscated at its own phase
FileOf(is_file, readable, parts) ==
    [is_file |-> is_file, readable |-> readable, parts |-> parts]

Part(plain, q) == [plain |-> plain, q |-> q]

NoFile == FileOf(FALSE, FALSE, <<>>)

FileIdle ==
    /\ file = NoFile
    /\ fpc = "idle"
    /\ passes = <<>>
    /\ fphase = 0
    /\ extracted = <<>>
    /\ written = <<>>

LookupIdle ==
    /\ lidx = 0
    /\ lres = None
    /\ lpc = "idle"

ScanIs(n) ==
    /\ pc = n.pc
    /\ exit = n.exit
    /\ pos = n.pos
    /\ header = n.header
    /\ mp3_stream = n.mp3_stream
    /\ is_mp3 = n.is_mp3
    /\ extracted_mp3s = n.extracted_mp3s
    /\ header_num = n.header_num
    /\ frame_length = n.frame_length

Init ==
    /\ input \in Inputs
    /\ ScanIs([Idle EXCEPT !.pc = "start"])
    /\ DeobfsIdle
    /\ FileIdle
    /\ LookupIdle

\* lines 80-95
Start ==
    /\ pc = "start"
    /\ Becomes(Begin(s))

\* a header that fails a check: `continue`
Reject ==
    /\ pc = "loop"
    /\ \E n \in {Step(s, Cur)} :
           n.pc = "loop" /\ n.exit # "ok" /\ Becomes(n)

\* a frame appended and the header refilled
Accept ==
    /\ pc = "loop"
    /\ \E n \in {Step(s, Cur)} :
           n.pc = "loop" /\ n.exit = "ok" /\ Becomes(n)

\* line 112, line 179, line 189: the three `break`s
ExitNoByte ==
    /\ pc = "loop"
    /\ \E n \in {Step(s, Cur)} :
           n.pc = "done" /\ n.exit = "no_byte" /\ Becomes(n)

ExitTruncated ==
    /\ pc = "loop"
    /\ \E n \in {Step(s, Cur)} :
           n.pc = "done" /\ n.exit = "truncated" /\ Becomes(n)

ExitRefill ==
    /\ pc = "loop"
    /\ \E n \in {Step(s, Cur)} :
           n.pc = "done" /\ n.exit = "refill" /\ Becomes(n)

Next == Start \/ Reject \/ Accept \/ ExitNoByte \/ ExitTruncated \/ ExitRefill

Spec == Init /\ [][Next]_vars

\* The scan under fairness, on the short buffers: the loop is sequential
\* code, so an iteration that can run does run
LiveInputs ==
    { Fixture(l, b, c, <<>>, t) :
        l \in 0..MaxLead, b \in 1..2, c \in 0..MaxCut, t \in {0, MaxTrail} }
        \cup {Fixture(100, 2, 0, <<>>, MaxTrail)}

InitLive == Init /\ input \in LiveInputs

SpecLive == InitLive /\ [][Next]_vars /\ WF_vars(Next)

---------------------------------------------------------------------------
(* deobfs on small buffers: one call, then a second call on its result *)

MaxBufLen == 6      \* buffers of 0..MaxBufLen bytes
MaxByte == 2        \* over the byte values 0..MaxByte

Phases == 0..3      \* line 48: (0..4)

Buffers == UNION { [1..k -> 0..MaxByte] : k \in 0..MaxBufLen }

InitDeobfs ==
    /\ buffer \in Buffers
    /\ phase \in Phases
    /\ once = [ok |-> TRUE, out |-> <<>>]
    /\ twice = [ok |-> TRUE, out |-> <<>>]
    /\ dpc = "start"
    /\ input = NoInput
    /\ ScanIs(Idle)
    /\ FileIdle
    /\ LookupIdle

CallOnce ==
    /\ dpc = "start"
    /\ once' = deobfs(buffer, phase)
    /\ dpc' = IF once'.ok THEN "once" ELSE "panic"
    /\ UNCHANGED <<buffer, phase, twice, svars, fvars, lvars>>

CallTwice ==
    /\ dpc = "once"
    /\ twice' = deobfs(once.out, phase)
    /\ dpc' = IF twice'.ok THEN "twice" ELSE "panic"
    /\ UNCHANGED <<buffer, phase, once, svars, fvars, lvars>>

NextDeobfs == CallOnce \/ CallTwice

SpecDeobfs == InitDeobfs /\ [][NextDeobfs]_vars

---------------------------------------------------------------------------
(* process_file, main.rs lines 33-65, on one file *)

\* The swap cipher at phase q, by index: the byte at i moves to i + 1 and
\* back for every i with i % 4 = q that has a successor
Obfuscate(b, q) ==
    [k \in 1..Len(b) |->
        LET i == k - 1
        IN  IF i % 4 = q /\ i + 1 < Len(b) THEN b[k + 1]
            ELSE IF i >= 1 /\ (i - 1) % 4 = q THEN b[k - 1]
            ELSE b[k]]

\* The content of a file: part after part, a part that starts at index
\* `base` of the file obfuscated at the indices i with i % 4 = q
RECURSIVE Content(_, _)
Content(parts, base) ==
    IF parts = <<>> THEN <<>>
    ELSE LET plain == Buffer(Head(parts).plain)
         IN  Obfuscate(plain, (Head(parts).q + 4 - (base % 4)) % 4)
             \o Content(Tail(parts), base + Len(plain))

\* The end-to-end scenario of the spec: 1000 bytes of noise, a run of
\* frames longer than THRESHOLD, 500 bytes of noise, obfuscated at phase 2
EndToEnd == FileOf(TRUE, TRUE, <<Part(Fixture(1000, 4, 0, <<>>, 500), 2)>>)

SmallFiles ==
    { FileOf(TRUE, TRUE, <<Part(Fixture(l, b, 0, <<>>, t), q)>>) :
        l \in 0..MaxLead, b \in 1..2, t \in 0..MaxTrail, q \in Phases }

\* Two runs.  The headers of the first survive the passes of phase 2 and
\* of phase 3: a header at index 4 * k has bytes 2 and 3 equal and lies
\* between 0xFF bytes.  The second is obfuscated at phase 0: the pass of
\* phase 0 finds the run that lies later in the file.
TwoRuns ==
    FileOf(TRUE, TRUE, <<Part(Fixture(3, 1, 0, <<255>>, 0), 0),
                         Part(Fixture(0, 9, 0, <<>>, 8), 2),
                         Part(Fixture(2, 4, 0, <<>>, 8), 0)>>)

FileInputs ==
    SmallFiles \cup {EndToEnd, TwoRuns,
                     FileOf(FALSE, FALSE, <<>>), FileOf(TRUE, FALSE, <<>>)}

\* line 40: fs::read(&path)
ContentOf == [f \in FileInputs |-> Content(f.parts, 0)]

\* line 49: deobfs(&buffer, i)
ClearOf(f, i) == deobfs(ContentOf[f], i)

\* A collected run: the pieces, which are slices of the buffer of phase i,
\* and the reported offset
Item(i, e) == [phase |-> i, run |-> e[1], offset |-> e[2]]

ItemBytes(f, it) == RopeBytes(ClearOf(f, it.phase).out, it.run)

\* lines 49-50: the runs of one phase, in the order found
PhaseItems(f, i) ==
    LET clear == ClearOf(f, i)
        r == extract_mp3(clear.out)
    IN  IF ~clear.ok THEN [ok |-> FALSE, items |-> <<>>]
        ELSE [ok |-> r.pc = "done",
              items |-> [k \in 1..Len(r.extracted_mp3s) |->
                            Item(i, r.extracted_mp3s[k])]]

\* the sort left out: the runs stay in the order collected
SortedOrders_none(items) == {items}

\* line 52: the orders sorted_unstable_by_key(|x| x.1) may leave
SortedOrders(items) ==
    { [k \in 1..Len(items) |-> items[perm[k]]] :
        perm \in { q \in Permutations(1..Len(items)) :
                     \A a, b \in 1..Len(items) :
                        a < b => items[q[a]].offset <= items[q[b]].offset } }

InitFile ==
    /\ file \in FileInputs
    /\ fpc = "start"
    /\ passes = <<>>
    /\ fphase = 0
    /\ extracted = <<>>
    /\ written = <<>>
    /\ input = NoInput
    /\ ScanIs(Idle)
    /\ DeobfsIdle
    /\ LookupIdle

\* lines 34-37
NotAFile ==
    /\ fpc = "start"
    /\ ~file.is_file
    /\ fpc' = "returned"
    /\ UNCHANGED <<file, passes, fphase, extracted, written, svars, dvars, lvars>>

\* lines 40-46, Err
ReadError ==
    /\ fpc = "start"
    /\ file.is_file /\ ~file.readable
    /\ fpc' = "returned"
    /\ UNCHANGED <<file, passes, fphase, extracted, written, svars, dvars, lvars>>

\* lines 40-46, Ok, and the iterator of lines 48-49 over the buffer read
ReadFile ==
    /\ fpc = "start"
    /\ file.is_file /\ file.readable
    /\ passes' = [i \in Phases |-> PhaseItems(file, i)]
    /\ fpc' = "extract"
    /\ UNCHANGED <<file, fphase, extracted, written, svars, dvars, lvars>>

\* lines 48-50: one i of the iterator
ExtractPhase ==
    /\ fpc = "extract"
    /\ fphase \in Phases
    /\ LET r == passes[fphase]
       IN  /\ r.ok
           /\ extracted' = extracted \o r.items
    /\ fphase' = fphase + 1
    /\ UNCHANGED <<file, fpc, passes, written, svars, dvars, lvars>>

\* lines 48-50: deobfs or extract_mp3 panics
ExtractPanic ==
    /\ fpc = "extract"
    /\ fphase \in Phases
    /\ ~passes[fphase].ok
    /\ fpc' = "panic"
    /\ UNCHANGED <<file, passes, fphase, extracted, written, svars, dvars, lvars>>

\* line 52
Sort ==
    /\ fpc = "extract"
    /\ fphase \notin Phases
    /\ extracted' \in SortedOrders(extracted)
    /\ fpc' = "write"
    /\ UNCHANGED <<file, passes, fphase, written, svars, dvars, lvars>>

\* lines 55-64: one file, named with i + 1
WriteNext ==
    /\ fpc = "write"
    /\ Len(written) < Len(extracted)
    /\ written' = Append(written,
                         [number |-> Len(written) + 1,
                          mp3 |-> extracted[Len(written) + 1]])
    /\ UNCHANGED <<file, fpc, passes, fphase, extracted, svars, dvars, lvars>>

Return ==
    /\ fpc = "write"
    /\ Len(written) = Len(extracted)
    /\ fpc' = "done"
    /\ UNCHANGED <<file, passes, fphase, extracted, written, svars, dvars, lvars>>

NextFile ==
    \/ NotAFile \/ ReadError \/ ReadFile \/ ExtractPhase \/ ExtractPanic
    \/ Sort \/ WriteNext \/ Return

SpecFile == InitFile /\ [][NextFile]_vars

---------------------------------------------------------------------------
(* The table lookups, main.rs lines 14-26: one call on one index *)

MaxIdx == 40        \* indices 0..MaxIdx

InitLookup ==
    /\ lidx \in 0..MaxIdx
    /\ lres = None
    /\ lpc = "start"
    /\ input = NoInput
    /\ ScanIs(Idle)
    /\ DeobfsIdle
    /\ FileIdle

LookupBitRate ==
    /\ lpc = "start"
    /\ lres' = get_bit_rate(lidx)
    /\ lpc' = "bit_rate"
    /\ UNCHANGED <<lidx, dvars, svars, fvars>>

LookupSampleRate ==
    /\ lpc = "start"
    /\ lres' = get_sample_rate(lidx)
    /\ lpc' = "sample_rate"
    /\ UNCHANGED <<lidx, dvars, svars, fvars>>

NextLookup == LookupBitRate \/ LookupSampleRate

SpecLookup == InitLookup /\ [][NextLookup]_vars

\* C15: get_bit_rate returns no value for index 0 and for every index
\* above 14 (15 included) and the entries 32000, 40000, ..., 320000, which
\* ascend, for the indices 1..14; get_sample_rate returns no value for
\* index 3 and above and 44100, 48000, 3200 for the indices 0, 1, 2.
C15_FieldLookup ==
    LET rates == <<32000, 40000, 48000, 56000, 64000, 80000, 96000, 112000,
                   128000, 160000, 192000, 224000, 256000, 320000>>
    IN  /\ \A i \in 1..13 : rates[i] < rates[i + 1]
        /\ lpc = "bit_rate" =>
               lres = (IF lidx \in 1..14 THEN <<rates[lidx]>> ELSE <<>>)
        /\ lpc = "sample_rate" =>
               lres = (IF lidx = 0 THEN <<44100>>
                       ELSE IF lidx = 1 THEN <<48000>>
                       ELSE IF lidx = 2 THEN <<3200>>
                       ELSE <<>>)

C15_Witness == lpc = "sample_rate" /\ lidx = 2 /\ lres = <<3200>>

---------------------------------------------------------------------------
(* Claims about deobfs, checked under SpecDeobfs *)

\* C5: deobfs has no error condition: for every buffer, lengths 0 and 1
\* included, and every phase 0..3 it returns a buffer (with no swap done
\* for length 0 or 1); it never panics.
C5_DeobfsAlwaysReturns ==
    dpc # "start" => once.ok /\ (Len(buffer) <= 1 => once.out = buffer)

\* C6 as stated, of the buffers the harness draws from: some buffer and
\* some phase p in 0..3 have deobfs(deobfs(b, p), p) # b.
C6_SomeBufferNotRestored ==
    dpc = "start" =>
        \E b \in Buffers, p \in Phases :
            /\ deobfs(b, p).ok
            /\ deobfs(deobfs(b, p).out, p).out # b

\* C6 amended: whenever deobfs returns, a second pass with the same phase
\* returns too and restores the original buffer.
C6_SecondPassRestores ==
    /\ dpc = "once" => deobfs(once.out, phase).ok
    /\ dpc = "twice" => twice.out = buffer

C6_Witness == dpc = "twice" /\ once.out # buffer /\ twice.out = buffer

\* C7: length preservation: for every buffer and phase 0..3 the output of
\* deobfs has the length of its input.
C7_LengthPreserved ==
    /\ dpc \in {"once", "twice"} => Len(once.out) = Len(buffer)
    /\ dpc = "twice" => Len(twice.out) = Len(buffer)

C7_Witness ==
    dpc = "once" /\ Len(buffer) >= 2 /\ once.out # buffer

\* C18: for a buffer of n >= 1 bytes and a phase p in 0..3 the output of
\* deobfs is a permutation of the input in which, for every index
\* i <= n - 2 with i mod 4 = p, the positions i and i + 1 hold each other's
\* input bytes and every other position holds its input byte: an index
\* whose residue mod 4 is neither p nor (p + 1) mod 4, and a last index
\* n - 1 with (n - 1) mod 4 = p.
C18_DeobfsFrameEffect ==
    (dpc = "once" /\ Len(buffer) >= 1) =>
        LET n == Len(buffer)
            out == once.out
            Swapped(i) == i >= 0 /\ i <= n - 2 /\ i % 4 = phase
        IN  /\ Len(out) = n
            /\ \A v \in 0..MaxByte :
                   Cardinality({k \in 1..n : out[k] = v})
                       = Cardinality({k \in 1..n : buffer[k] = v})
            /\ \A i \in 0..(n - 1) :
                   /\ Swapped(i) =>
                          out[i + 1] = buffer[i + 2] /\ out[i + 2] = buffer[i + 1]
                   /\ (~Swapped(i) /\ ~Swapped(i - 1)) => out[i + 1] = buffer[i + 1]
                   /\ (i % 4 # phase /\ i % 4 # (phase + 1) % 4) =>
                          out[i + 1] = buffer[i + 1]
                   /\ (i = n - 1 /\ i % 4 = phase) => out[i + 1] = buffer[i + 1]

C18_Witness ==
    /\ dpc = "once" /\ phase = 0
    /\ buffer = <<0, 1, 2, 2, 1, 0>>
    /\ once.out = <<1, 0, 2, 2, 0, 1>>

---------------------------------------------------------------------------
(* Claims about extract_mp3, checked under Spec *)

\* An emitted run: its bytes and its reported offset
Payload(e) == RopeBytes(s, e[1])
OffsetOf(e) == e[2]

\* C1: the offset reported with an emitted run is the index in the buffer of
\* the run's first byte; for N bytes of noise followed by an emitted run of
\* frames it is N.
C1_OffsetIsRunStart ==
    \A k \in 1..Len(extracted_mp3s) :
        LET e == extracted_mp3s[k]
        IN  /\ OffsetOf(e) = input.lead
            /\ SubSeq(s, OffsetOf(e) + 1, OffsetOf(e) + Len(Payload(e))) = Payload(e)

\* C2: on every exit path of the scan a pending run longer than the
\* threshold has been emitted when the function returns.
C2_PendingRunEmittedOnExit ==
    (pc = "done" /\ RopeLen(mp3_stream) > THRESHOLD) =>
        /\ extracted_mp3s # <<>>
        /\ Payload(extracted_mp3s[Len(extracted_mp3s)]) = RopeBytes(s, mp3_stream)

\* C3: a buffer of back-to-back frames of THRESHOLD + 1 bytes in all is
\* emitted; one of THRESHOLD bytes in all gives nothing.
C3_ThresholdBoundary ==
    (/\ pc = "done"
     /\ input.body # 1
     /\ input.lead = 0 /\ input.cut = 0 /\ input.trail = 0) =>
        /\ Len(s) = THRESHOLD + 1 =>
               Len(extracted_mp3s) = 1 /\ Payload(extracted_mp3s[1]) = s
        /\ Len(s) = THRESHOLD => extracted_mp3s = <<>>

\* C8: the scan never faults: the header register holds 4 bytes at the top
\* of every iteration, no iteration panics (header shift, header index,
\* frame_length - 4, the offset subtraction, 144 * bit_rate), and a buffer
\* of fewer than 3 bytes gives the empty result.
C8_ScanNeverFaults ==
    /\ pc = "start" => Begin(s).pc \in {"loop", "done"}
    /\ pc = "loop" => Len(header) = 4 /\ Step(s, Cur).pc \in {"loop", "done"}
    /\ pc \in {"start", "loop", "done"}
    /\ (pc = "done" /\ Len(s) < 3) => extracted_mp3s = <<>>

C8_Witness ==
    pc = "done" /\ exit = "no_byte" /\ Len(extracted_mp3s) = 1 /\ frame_length >= 4

\* The header fields read off the four bytes of a window, by division
WinVersion(w) == (w[2] \div 8) % 4
WinLayer(w) == (w[2] \div 2) % 4
WinBitRateIdx(w) == w[3] \div 16
WinSampleRateIdx(w) == (w[3] \div 4) % 4
WinPadding(w) == (w[3] \div 2) % 2
WinEmphasis(w) == w[4] % 4

WinValid(w) ==
    /\ w[1] = 255 /\ w[2] \div 32 = 7
    /\ WinVersion(w) = 3
    /\ WinLayer(w) = 1
    /\ WinBitRateIdx(w) \in 1..14
    /\ WinSampleRateIdx(w) \in 0..2
    /\ WinEmphasis(w) # 2

\* The window an iteration starting in this state decodes: the last three
\* bytes consumed and the next one
Window == SubSeq(s, pos - 2, pos + 1)

\* C9: a 4-byte window is treated as a frame start only if its top 11 bits
\* are ones, version = 0b11, layer = 0b01, bit-rate index in 1..14,
\* sample-rate index in 0..2 and emphasis # 0b10.
C9_OnlyValidHeadersAccepted ==
    [][(pc = "loop" /\ is_mp3') => WinValid(Window)]_vars

C9_Witness ==
    /\ pc = "loop" /\ is_mp3 /\ exit = "ok"
    /\ input.probe # <<>>
    /\ RopeBytes(s, mp3_stream) = SubSeq(s, 1, frame_length)

\* C10: the bytes taken for an accepted header are
\* floor(144 * bit_rate / sample_rate) + padding, from that header's own
\* fields, with no 32-bit overflow; 417 and 418 bytes for 128000 bit/s at
\* 44100 Hz.
C10_FrameLengthFormula ==
    /\ [](pc = "loop" => Step(s, Cur).exit # "multiply")
    /\ [][(pc = "loop" /\ mp3_stream' # <<>> /\ mp3_stream' # mp3_stream) =>
            LET w == Window
                taken == RopeLen(mp3_stream')
                             - (IF is_mp3 THEN RopeLen(mp3_stream) ELSE 0)
                want == (144 * (1000 * RefKbps[WinBitRateIdx(w)]))
                            \div RefHz[WinSampleRateIdx(w) + 1] + WinPadding(w)
            IN  /\ taken = want
                /\ frame_length' = want
                /\ (w[3] = 144 => taken = 417)
                /\ (w[3] = 146 => taken = 418)]_vars

C10_Witness ==
    /\ pc = "loop" /\ is_mp3 /\ frame_length = 418
    /\ RopeLen(mp3_stream) = 417 + 418

\* C11: in every state of the scan every run in the result is longer than
\* THRESHOLD = 50 * 1024 bytes, and an iteration that finds a broken chain
\* with an accumulated run of at most THRESHOLD bytes adds nothing to the
\* result.
C11_EmittedRunsExceedThreshold ==
    /\ [](\A k \in 1..Len(extracted_mp3s) :
             /\ Len(Payload(extracted_mp3s[k])) > THRESHOLD
             /\ Len(Payload(extracted_mp3s[k])) > 51200)
    /\ [][(pc = "loop" /\ RopeLen(mp3_stream) <= 51200) =>
             extracted_mp3s' = extracted_mp3s]_vars

C11_Witness ==
    /\ pc = "done" /\ Len(extracted_mp3s) = 1
    /\ Len(Payload(extracted_mp3s[1])) = 51201

\* The index of the next window the scan has to examine: the window of an
\* iteration is the last three bytes consumed and the next one; after the
\* break of line 189 the header register holds none of them
NextCandidate ==
    IF pc = "start" \/ (pc = "done" /\ exit = "short") THEN 0
    ELSE IF pc = "done" /\ exit = "refill" THEN pos
    ELSE pos - 3

\* C13 as stated: when the scan has returned, no index with 4 bytes
\* available is left that was neither tested as a frame start nor lies in
\* a consumed frame.
C13_EveryCandidateTested ==
    pc = "done" => NextCandidate + 4 > Len(s)

\* C13 amended: the first window starts at index 0; after a window at k
\* fails validation the next window starts at k + 1; after a frame of
\* length L at k is consumed the next window starts at k + L; so every
\* index outside the consumed frames is tested, up to the index where the
\* scan ends: at the end of the buffer, or at the first valid header whose
\* frame is longer than the rest of the buffer, and then the indices after
\* that header are not tested.
C13_NoWindowSkipped ==
    /\ [][/\ pc = "start" => NextCandidate' = 0
          /\ (pc = "loop" /\ pc' = "loop" /\ ~is_mp3') =>
                 /\ NextCandidate' = NextCandidate + 1
                 /\ header' = SubSeq(s, NextCandidate + 1, NextCandidate + 4)
          /\ (pc = "loop" /\ is_mp3' /\ exit' \in {"ok", "refill"}) =>
                 /\ NextCandidate' = NextCandidate + frame_length'
                 /\ mp3_stream'[Len(mp3_stream')] =
                        Piece(SubSeq(s, NextCandidate + 1, NextCandidate + 4),
                              NextCandidate + 4, NextCandidate + frame_length')
          /\ (pc = "loop" /\ exit' = "no_byte") =>
                 NextCandidate' = NextCandidate
          /\ (pc = "loop" /\ exit' = "truncated") =>
                 /\ NextCandidate' = NextCandidate + 1
                 /\ WinValid(Window)
                 /\ NextCandidate + frame_length' > Len(s)]_vars
    /\ []((pc = "done" /\ exit # "truncated") => NextCandidate + 4 > Len(s))

C13_Witness ==
    /\ pc = "done" /\ exit = "truncated"
    /\ input.lead = 1 /\ mp3_stream # <<>>
    /\ NextCandidate + 4 <= Len(s)

\* The frames of a run lie back to back in the buffer: each piece is a
\* 4-byte header that validates, copied from the 4 bytes in front of the
\* slice taken, with the length computed from the header's own fields, and
\* each piece starts where the one before it ends
FramesOf(rope) ==
    /\ \A j \in 1..Len(rope) :
           LET w == rope[j].head
           IN  /\ Len(w) = 4
               /\ rope[j].from >= 4 /\ rope[j].to <= Len(s)
               /\ w = SubSeq(s, rope[j].from - 3, rope[j].from)
               /\ WinValid(w)
               /\ 4 + rope[j].to - rope[j].from =
                      FrameLength(get_bit_rate(WinBitRateIdx(w))[1],
                                  get_sample_rate(WinSampleRateIdx(w))[1],
                                  WinPadding(w) = 1)
    /\ \A j \in 1..(Len(rope) - 1) : rope[j + 1].from - 4 = rope[j].to

\* C14: every emitted payload is one contiguous slice of the buffer made
\* of one or more complete back-to-back frames, each starting with a header
\* that validates and each as long as its own header says; so no dropped
\* run, gap byte, placeholder byte or truncated frame is in a payload.  The
\* same holds of the run being accumulated.
C14_PayloadIsContiguousFrames ==
    /\ FramesOf(mp3_stream)
    /\ \A k \in 1..Len(extracted_mp3s) :
           LET rope == extracted_mp3s[k][1]
           IN  /\ Len(rope) >= 1
               /\ FramesOf(rope)
               /\ Payload(extracted_mp3s[k]) =
                      SubSeq(s, rope[1].from - 3, rope[Len(rope)].to)

C14_Witness ==
    /\ pc = "done" /\ input.body = 8 /\ input.lead = 1
    /\ Len(extracted_mp3s) = 2
    /\ Len(extracted_mp3s[2][1]) = 4

RunStart(e) == e[1][1].from - 4
RunEnd(e) == e[1][Len(e[1])].to

\* C17: within one call the emitted runs do not overlap as byte ranges of
\* the buffer, and they are returned in strictly increasing order of
\* position and of reported offset.
C17_RunsDisjointAndOrdered ==
    \A a, b \in 1..Len(extracted_mp3s) :
        a < b =>
            /\ RunStart(extracted_mp3s[a]) < RunEnd(extracted_mp3s[a])
            /\ RunEnd(extracted_mp3s[a]) <= RunStart(extracted_mp3s[b])
            /\ RunStart(extracted_mp3s[a]) < RunStart(extracted_mp3s[b])
            /\ OffsetOf(extracted_mp3s[a]) < OffsetOf(extracted_mp3s[b])

C17_Witness ==
    /\ pc = "done" /\ Len(extracted_mp3s) = 2
    /\ input.lead = 0
    /\ RunEnd(extracted_mp3s[1]) = 57600
    /\ RunStart(extracted_mp3s[2]) = 57600 + 1 + 417 + 418 + 2

---------------------------------------------------------------------------
(* Claims about process_file, checked under SpecFile *)

\* C4: end to end, for noise of N bytes, one run of frames longer than the
\* threshold and trailing noise, obfuscated at phase 2: the passes of
\* phases 0..3 give exactly one run in all, it comes from the pass of
\* phase 2, its offset is N and its bytes are the constructed frames.
C4_EndToEnd ==
    (file = EndToEnd /\ fpc \in {"extract", "write", "done"}) =>
        LET part == file.parts[1]
        IN  /\ Len(extracted) = (IF fphase > part.q THEN 1 ELSE 0)
            /\ \A k \in 1..Len(extracted) :
                   /\ extracted[k].phase = part.q
                   /\ extracted[k].offset = part.plain.lead
                   /\ ItemBytes(file, extracted[k]) = FrameBytes(part.plain)
            /\ fpc = "done" => Len(written) = 1

\* The runs extract_mp3 returns for the four deobfuscations of the file,
\* in the order of the phases
Collected ==
    passes[0].items \o passes[1].items \o passes[2].items \o passes[3].items

SameItems(a, b) ==
    /\ Len(a) = Len(b)
    /\ \E perm \in Permutations(1..Len(a)) :
           \A k \in 1..Len(a) : a[k] = b[perm[k]]

\* C12: when process_file writes, the runs to persist are the runs returned
\* by extract_mp3 over the deobfuscations of phases 0..3, none added or
\* lost, in non-decreasing order of reported offset, and output file number
\* k (from 1) holds the k-th run of that order; all of them are written.
C12_MergeOrder ==
    fpc \in {"write", "done"} =>
        /\ SameItems(extracted, Collected)
        /\ \A a, b \in 1..Len(extracted) :
               a < b => extracted[a].offset <= extracted[b].offset
        /\ Len(written) <= Len(extracted)
        /\ \A k \in 1..Len(written) :
               /\ written[k].number = k
               /\ written[k].mp3 = extracted[k]
        /\ fpc = "done" => Len(written) = Len(extracted)

C12_Witness ==
    /\ fpc = "done" /\ Len(written) = 3
    /\ written[1].mp3.phase = 3 /\ written[2].mp3.phase = 2
    /\ written[1].mp3.offset = written[2].mp3.offset
    /\ written[3].mp3.phase = 0
    /\ written[2].mp3.offset < written[3].mp3.offset

===========================================================================
